---- MODULE Spec2Model ----
(***************************************************************************)
(* Task / batch orchestration of the NLP pipeline service                  *)
(* (src/app/services/task_service.py, src/app/worker.py,                   *)
(* src/app/api/endpoints/batch.py, src/app/services/cache_service.py).     *)
(*                                                                         *)
(* The record store and the cache are shared state.  Every coroutine of    *)
(* TaskService that has been started is a "run" with a program counter;    *)
(* one step of a run is the code between two suspension points, that is    *)
(* between two awaited external calls (context provider, inference         *)
(* gateway, webhook delivery).                                             *)
(***************************************************************************)
EXTENDS Integers, Sequences, FiniteSets, TLC

\* ----------------------------------------------------------------- bounds
MaxTasks == 2      \* Task rows that may be created
MaxJobs  == 1      \* BatchJob rows that may be created
MaxRuns  == 2      \* coroutines started (requests and worker messages)
MaxBatch == 2      \* children of one batch request
MaxCancels == 2    \* DELETE /batch/{job_id} requests
MaxWebhooks == 1   \* Webhook rows that may be created
MaxNotifies == 4   \* direct calls of WebhookService.send_notification
MaxKeys == 3       \* keys of a notification payload
MaxText == 2       \* characters of a context fragment
MaxLength == 4     \* the largest max_length asked of the Context Provider

\* ------------------------------------------------------- program constants
\* settings.CACHE_ENABLED
CACHE_ENABLED == TRUE

\* TaskService.task_handlers
task_handlers ==
    {"classification", "entity_extraction", "summarization", "sentiment_analysis"}

\* settings.MAX_WEBHOOK_FAILURES
MAX_WEBHOOK_FAILURES == 3

\* WebhookService.max_retries, WebhookService.retry_delay
max_retries == 3
retry_delay == 5

\* settings.ULTRASAFE_MAX_RETRIES
ULTRASAFE_MAX_RETRIES == 3

\* TaskStatus
PENDING    == "pending"
PROCESSING == "processing"
COMPLETED  == "completed"
FAILED     == "failed"
CANCELLED  == "cancelled"
Terminal   == {COMPLETED, FAILED, CANCELLED}

\* ------------------------------------------------------------------ inputs
\* A request is (task_type, input_text, parameters); parameters carries the
\* classification categories (0: key absent) and the use_rag flag.
Req(k, x, c, g) ==
    [kind |-> k, text |-> x, parameters |-> [categories |-> c, use_rag |-> g]]

\* what the /nlp endpoints pass to create_task: the kind is one of the four
\* literals and the schema requires the kind's own parameter
Requests ==
    { Req("classification", "t1", 1, FALSE),
      Req("classification", "t1", 2, TRUE),
      Req("sentiment_analysis", "t1", 0, FALSE),
      Req("sentiment_analysis", "t2", 0, FALSE) }

\* what a caller of TaskService.create_task can pass: task_type is a str and
\* parameters a dict, neither is validated by the method
ServiceRequests ==
    Requests \cup { Req("translation", "t1", 0, FALSE),
                    Req("classification", "t2", 0, FALSE) }

\* children of a batch request: BatchTask.task_type is a TaskType, its
\* parameters are a free dict (the categories may be missing)
BatchRequests ==
    { Req("classification", "t1", 1, FALSE),
      Req("classification", "t1", 0, FALSE) }

BatchInputs ==
    UNION { [1..n -> BatchRequests] : n \in 1..MaxBatch }

\* job.webhook_url, which the service hands to send_notification as the
\* webhook id: 0 is None, the others name a Webhook row that may exist or not
WebhookTargets == 0..MaxWebhooks

\* what the POST of a delivery attempt can end in: a success status, an error
\* status (raise_for_status), a transport error, any other exception
Outcomes == {"2xx", "status", "transport", "exception"}

\* the keys of the notification payloads (task_service.py 111-115, 129-133,
\* 262-266, 280-284), in the order sort_keys puts them
PayloadKeys == <<"error", "event", "job_id", "result", "results", "task_id">>

\* a payload is a dict: its items in insertion order, no key twice
Payloads ==
    UNION { { p \in [1..n -> 1..Len(PayloadKeys)] :
                \A i, k \in 1..n : i # k => p[i] # p[k] } : n \in 1..MaxKeys }

\* Webhook.secret
Secrets == {1, 2}

\* how the installed httpx encodes json=payload: json.dumps(payload) with the
\* default separators, or with separators=(",", ":")
JsonEncoders == {"default", "compact"}

\* settings.RAG_TOP_K and settings.RAG_SCORE_THRESHOLD (0.7, in tenths)
RAG_TOP_K == 3
RAG_SCORE_THRESHOLD == 7

\* the scores the similarity index may give a match, in tenths
Scores == {6, 7, 9}

\* the text of the match at place i of an answer: n characters, told apart
\* from the text of any other match
Text(i, n) == [k \in 1..n |-> i]

\* the answers of the similarity index: at most top_k matches, in descending
\* order of score
ProviderResults ==
    { [i \in DOMAIN f |-> [score |-> f[i][1], text |-> Text(i, f[i][2])]] :
        f \in { g \in UNION { [1..n -> Scores \X (0..MaxText)] : n \in 0..RAG_TOP_K } :
                  \A i \in DOMAIN g : i > 1 => g[i - 1][1] >= g[i][1] } }

\* an Inference Gateway operation meets a provider whose first `fails`
\* attempts fail (error status, transport error, unreadable answer); the
\* next one, if it is made, succeeds
GatewayFailures == 0..ULTRASAFE_MAX_RETRIES

\* how the search of the Context Provider ends: matches, none, an error
RagOutcomes == {"matches", "empty", "error"}

VARIABLES
    tasks,      \* Task rows, indexed by id
    jobs,       \* BatchJob rows, indexed by id
    cache,      \* cache key -> cached value
    runs,       \* coroutines started so far
    calls,      \* number of Inference Gateway invocations so far
    webhooks,   \* Webhook rows, indexed by id
    reply,      \* the last response of DELETE /batch/{job_id}
    revoked,    \* the tasks that were cancelled while pending
    sent,       \* the last notification request put on the wire
    gateway,    \* the last Inference Gateway operation that ended
    retrieved   \* the last call of RAGService.get_relevant_context

vars ==
    <<tasks, jobs, cache, runs, calls, webhooks, reply, revoked, sent, gateway,
      retrieved>>

\* ------------------------------------------------------------ pure helpers
\* an empty dict / an absent JSON column
EmptyMap == [k \in {} |-> 0]

\* TaskService._generate_input_hash: SHA-256 of the text and of nothing else
_generate_input_hash(text) == <<"sha256", text>>

\* f"{task_type}:{input_hash}"
cache_key(task_type, input_hash) == <<task_type, input_hash>>

\* Task.parameters as _process_task and the handlers read it: the
\* kind-specific payload the task was submitted with
parameters(q) == q.parameters

\* Task(...) as create_task / create_batch_job build it
NewTask(q, job) ==
    [ task_type    |-> q.kind,
      input_text   |-> q.text,
      parameters   |-> parameters(q),
      input_hash   |-> _generate_input_hash(q.text),
      status       |-> PENDING,
      result       |-> 0,
      error        |-> "None",
      completed_at    |-> 0,    \* 0: NULL, 1: a timestamp
      processing_time |-> 0,    \* 0: NULL, 1: a number of seconds
      batch_job_id |-> job ]

\* BatchJob(...) as create_batch_job builds it
NewJob(n, wh) ==
    [ status          |-> PENDING,
      total_tasks     |-> n,
      completed_tasks |-> 0,
      failed_tasks    |-> 0,
      results         |-> EmptyMap,
      error           |-> "None",
      webhook_url     |-> wh ]

\* what a caller sees of a Task row
Snap(T, t) ==
    [ id |-> t, status |-> T[t].status, result |-> T[t].result,
      error |-> T[t].error ]

\* Webhook(...) as create_webhook builds it, with the column defaults
NewWebhook ==
    [ is_active |-> TRUE, failure_count |-> 0, last_status |-> 0,
      last_triggered |-> 0 ]

\* the attributes of a Webhook object the session has loaded (the query of
\* send_notification), and an object that is not loaded or expired by a commit
Loaded(row) ==
    [failure_count |-> row.failure_count, last_status |-> row.last_status]
NotLoaded == [failure_count |-> -1, last_status |-> -1]

NewRun(op, pc, t, j) ==
    [ op      |-> op,       \* "submit", "batch", "wtask", "wbatch"
      pc      |-> pc,
      task    |-> t,        \* task being processed (0: none)
      job     |-> j,        \* job being coordinated (0: none)
      queue   |-> <<>>,     \* children still to process
      results |-> EmptyMap, \* the coordinator's local results dict
      call    |-> 0,        \* serial of the gateway call in flight
      req     |-> Req("", "", 0, FALSE),
      hit     |-> FALSE,
      ret     |-> [id |-> 0, status |-> "", result |-> 0, error |-> "None"],
      expired |-> FALSE,    \* the entry this submit stored has expired
      fresh   |-> {},       \* submits returned, and not expired, at start
      rag     |-> "",       \* how the context search of its task ended
      target  |-> 0,        \* send_notification: the webhook id
      attempt |-> 0,        \*   the index of its retry loop
      seen    |-> NotLoaded,\*   the Webhook attributes its session holds
      posts   |-> 0,        \*   the POSTs it has made
      found   |-> "",       \*   what its lookup found
      out     |-> "" ]      \*   how it ended: "True", "False", "raise"

Coordinators == {"batch", "wbatch"}
Finished == {"done", "raised"}

ChildrenOf(T, j) == { t \in DOMAIN T : T[t].batch_job_id = j }

\* db.query(Task).filter(Task.batch_job_id == job_id).all(), in id order
RECURSIVE SeqOfSet(_)
SeqOfSet(S) ==
    IF S = {} THEN <<>>
    ELSE LET m == CHOOSE x \in S : \A y \in S : x <= y
         IN <<m>> \o SeqOfSet(S \ {m})

Init ==
    /\ tasks = <<>>
    /\ jobs = <<>>
    /\ cache = EmptyMap
    /\ runs = <<>>
    /\ calls = 0
    /\ webhooks = <<>>
    /\ reply = [n |-> 0, job |-> 0, status_code |-> 0]
    /\ revoked = {}
    /\ sent = [secret |-> 0, body |-> 0, signature |-> 0]
    /\ gateway = [fails |-> 0, attempts |-> 0, out |-> ""]
    /\ retrieved = [results |-> <<>>, max_length |-> 0, raised |-> FALSE,
                    called |-> FALSE,
                    context |-> [none |-> TRUE, text |-> <<>>]]

\* The whole state as one value: T the Task rows, J the BatchJob rows, C the
\* cache, R the runs, n the number of gateway invocations, W the Webhook
\* rows, G the last gateway operation.  The operators
\* below map a state to the set of states the code can reach from it at the
\* next suspension point.
Now ==
    [T |-> tasks, J |-> jobs, C |-> cache, R |-> runs, n |-> calls,
     W |-> webhooks, G |-> gateway]

Becomes(m) ==
    /\ tasks' = m.T
    /\ jobs' = m.J
    /\ cache' = m.C
    /\ runs' = m.R
    /\ calls' = m.n
    /\ webhooks' = m.W
    /\ gateway' = m.G
    /\ UNCHANGED <<reply, revoked, sent, retrieved>>

\* task.batch_job and task.batch_job.webhook_url
Notifies(m, t) ==
    /\ m.T[t].batch_job_id # 0
    /\ m.J[m.T[t].batch_job_id].webhook_url # 0

\* the webhook id send_notification gets for task t
TargetOf(m, t) == m.J[m.T[t].batch_job_id].webhook_url

\* a run that is over keeps what its caller got and nothing else
EndRun(run, pc) ==
    [run EXCEPT !.pc = pc, !.task = 0, !.queue = <<>>, !.results = EmptyMap,
                !.call = 0, !.attempt = 0, !.seen = NotLoaded, !.rag = ""]

\* ------------------------------------------ WebhookService.send_notification
\* the lookup and the check, had the check of is_active been left out
AcceptsKnown(W, w) == w \in DOMAIN W

\* the lookup of the webhook and the check of is_active (lines 25-32): the
\* call goes on to its first POST, otherwise it returns False at once
Accepts(W, w) == w \in DOMAIN W /\ W[w].is_active

\* what the lookup of webhook w finds
Lookup(W, w) ==
    IF w \notin DOMAIN W THEN "unknown"
    ELSE IF W[w].is_active THEN "active" ELSE "inactive"

\* the call has loaded the webhook, built its headers and awaits its POST
Post(m, r, w, pc) ==
    [m EXCEPT !.R[r].pc = pc, !.R[r].target = w, !.R[r].attempt = 0,
              !.R[r].seen = Loaded(m.W[w]), !.R[r].posts = @ + 1]

\* asyncio.sleep, had the module imported asyncio
sleep_returns(delay) == "slept"

\* line 96: the module does not import asyncio, the name lookup fails
sleep(delay) == "NameError"

\* lines 95-98, after a failed attempt that did not return: the wait before
\* the next attempt, or the end of the loop
AfterAttempt(attempt) ==
    IF attempt < max_retries - 1
    THEN IF sleep(retry_delay) = "NameError" THEN "raise" ELSE "retry"
    ELSE "False"

\* the attributes the failure branches read: the ones loaded before the POST,
\* or the row itself once a commit of this session has expired the object
Held(row, seen) == IF seen = NotLoaded THEN Loaded(row) ELSE seen

\* db.commit() after failure_count and last_status were assigned: the UPDATE
\* carries the columns whose value differs from the one the session holds
Commit(row, seen, fc, ls) ==
    [row EXCEPT !.failure_count = IF fc = seen.failure_count THEN @ ELSE fc,
                !.last_status = IF ls = seen.last_status THEN @ ELSE ls]

\* lines 52-55, had the success branch also set is_active
DeliveredReactivates(row, seen, stamp) ==
    [Commit(row, seen, 0, 200) EXCEPT !.last_triggered = stamp, !.is_active = TRUE]

\* lines 52-55: a success status records last_triggered and last_status,
\* resets failure_count and commits; is_active is not written
Delivered(row, seen, stamp) ==
    [Commit(row, seen, 0, 200) EXCEPT !.last_triggered = stamp]

\* One pass of the retry loop once the POST has ended in o (lines 42-96).
\* row: the Webhook row as committed; pending: the row once the caller
\* commits what this session has not flushed; out: "True", "False", "raise"
\* or "retry".  A transport error has no response attribute: reading
\* e.response raises AttributeError (legacy: an httpx whose HTTPError
\* carries response = None).
Attempt(row, seen, attempt, o, legacy, stamp) ==
    LET h  == Held(row, seen)
        fc == h.failure_count + 1
    IN  CASE o = "2xx" ->
               LET ok == Delivered(row, seen, stamp)
               IN  [row |-> ok, pending |-> ok, out |-> "True"]
          [] o = "status" \/ (o = "transport" /\ legacy) ->
               LET r1 == Commit(row, h, fc, IF o = "status" THEN 500 ELSE 0)
                   r2 == [r1 EXCEPT !.is_active = FALSE]
               IN  IF r1.failure_count >= MAX_WEBHOOK_FAILURES
                   THEN [row |-> r2, pending |-> r2, out |-> "False"]
                   ELSE [row |-> r1, pending |-> r1, out |-> AfterAttempt(attempt)]
          [] o = "transport" /\ ~legacy ->
               [row |-> row, pending |-> Commit(row, h, fc, h.last_status),
                out |-> "raise"]
          [] o = "exception" ->
               LET r1 == Commit(row, h, fc, h.last_status)
               IN  [row |-> r1, pending |-> r1, out |-> AfterAttempt(attempt)]

\* every way the POST that run r awaits can end
Deliveries(m, r) ==
    { Attempt(m.W[m.R[r].target], m.R[r].seen, m.R[r].attempt, o, legacy, r) :
        o \in Outcomes, legacy \in BOOLEAN }

\* the Webhook row as the call leaves it
Landed(m, r, row) == [m EXCEPT !.W[m.R[r].target] = row]

\* the loop goes round: the next POST is awaited
Retried(m, r, row) ==
    [m EXCEPT !.W[m.R[r].target] = row, !.R[r].attempt = @ + 1,
              !.R[r].seen = NotLoaded, !.R[r].posts = @ + 1]

RECURSIVE StartTask(_, _), Dispatch(_, _), TaskFail(_, _, _), TaskReturn(_, _)
RECURSIVE BatchLoop(_, _)

\* ---------------------------------------------- TaskService._process_batch_job
\* the except clause of _process_batch_job
CoordExcept(m, r, e) ==
    LET j == m.R[r].job
        J == [m.J EXCEPT ![j].status = FAILED, ![j].error = e]
        w == m.J[j].webhook_url
    IN  IF w # 0 /\ Accepts(m.W, w)
        THEN { Post([m EXCEPT !.J = J], r, w, "bnotify_failed") }
        ELSE { [m EXCEPT !.J = J, !.R[r] = EndRun(@, "done")] }

\* after the for loop: the update of the job and its notification
BatchFinish(m, r) ==
    LET j == m.R[r].job
        J == [m.J EXCEPT ![j].status = COMPLETED,
                         ![j].results = m.R[r].results]
        w == m.J[j].webhook_url
    IN  IF w # 0 /\ Accepts(m.W, w)
        THEN { Post([m EXCEPT !.J = J], r, w, "bnotify_completed") }
        ELSE { [m EXCEPT !.J = J, !.R[r] = EndRun(@, "done")] }

\* the loop body after `await self._process_task(...)`: re-read the task,
\* count it, record its entry in the local results dict
Tally(m, r) ==
    LET t == m.R[r].task
        j == m.R[r].job
    IN  IF m.T[t].status = COMPLETED
        THEN [m EXCEPT !.J[j].completed_tasks = @ + 1,
                       !.R[r].results = (t :> <<"result", m.T[t].result>>) @@ @]
        ELSE [m EXCEPT !.J[j].failed_tasks = @ + 1,
                       !.R[r].results = (t :> <<"error", m.T[t].error>>) @@ @]

\* the head of the for loop
BatchLoop(m, r) ==
    IF m.R[r].queue # <<>>
    THEN StartTask([m EXCEPT !.R[r].task = Head(m.R[r].queue),
                             !.R[r].queue = Tail(m.R[r].queue),
                             !.R[r].call = 0], r)
    ELSE BatchFinish(m, r)

\* from the query of the job to the first suspension
BatchStart(m, r) ==
    LET j == m.R[r].job
    IN  BatchLoop([m EXCEPT !.J[j].status = PROCESSING,
                            !.R[r].queue = SeqOfSet(ChildrenOf(m.T, j)),
                            !.R[r].results = EmptyMap], r)

\* -------------------------------------------------- TaskService._process_task
\* _process_task returns normally to its caller
TaskReturn(m, r) ==
    IF m.R[r].op \in Coordinators
    THEN BatchLoop(Tally(m, r), r)
    ELSE { [m EXCEPT !.R[r] = [EndRun(@, "done") EXCEPT
                                  !.ret = Snap(m.T, m.R[r].task),
                                  !.call = m.R[r].call]] }

\* an exception leaves _process_task (raised by the notification sent from
\* its except clause)
TaskRaise(m, r) ==
    IF m.R[r].op \in Coordinators
    THEN CoordExcept(m, r, "notify")
    ELSE { [m EXCEPT !.R[r] = EndRun(@, "raised")] }

\* the except clause of _process_task, had it recorded the error without
\* setting the status
TaskFailKeepsStatus(m, r, e) ==
    LET t  == m.R[r].task
        m1 == [m EXCEPT !.T[t].error = e]
    IN  IF Notifies(m1, t) /\ Accepts(m1.W, TargetOf(m1, t))
        THEN { Post(m1, r, TargetOf(m1, t), "notify_failed") }
        ELSE TaskReturn(m1, r)

\* the except clause of _process_task
TaskFail(m, r, e) ==
    LET t  == m.R[r].task
        m1 == [m EXCEPT !.T[t].status = FAILED, !.T[t].error = e]
    IN  IF Notifies(m1, t) /\ Accepts(m1.W, TargetOf(m1, t))
        THEN { Post(m1, r, TargetOf(m1, t), "notify_failed") }
        ELSE TaskReturn(m1, r)

\* handler lookup and the handler's call of the Inference Gateway
Dispatch(m, r) ==
    LET t == m.R[r].task
    IN  IF m.T[t].task_type \notin task_handlers
        THEN TaskFail(m, r, "ValueError")
        ELSE IF m.T[t].task_type = "classification" /\ m.T[t].parameters.categories = 0
        THEN TaskFail(m, r, "KeyError")
        ELSE { [m EXCEPT !.n = @ + 1, !.R[r].pc = "infer", !.R[r].call = m.n + 1] }

\* from the query of the task to the first suspension
StartTask(m, r) ==
    LET t  == m.R[r].task
        m1 == [m EXCEPT !.T[t].status = PROCESSING]
    IN  IF m1.T[t].parameters.use_rag
        THEN { [m1 EXCEPT !.R[r].pc = "rag"] }
        ELSE Dispatch(m1, r)

\* cache_service.set: stores the value, or swallows an error and stores nothing
CacheSet(C, key, value, ok) ==
    IF ok THEN (key :> value) @@ C ELSE C

\* CacheService.set, had it no except clause
set_raises(ok) == IF ok THEN "True" ELSE "raise"

\* what CacheService.set hands back: the answer of setex, or False once its
\* except clause has logged the error (lines 55-57)
set(ok) == IF ok THEN "True" ELSE "False"

\* lines 91-116, had the entry been stored before the task was updated
TaskCompleteStoresFirst(m, r, ok) ==
    LET t  == m.R[r].task
        m1 == [m EXCEPT !.C = CacheSet(@,
                  cache_key(m.T[t].task_type, m.T[t].input_hash),
                  Snap(m.T, t), ok)]
        m2 == [m1 EXCEPT !.T[t].status = COMPLETED, !.T[t].result = m.R[r].call,
                         !.T[t].completed_at = 1, !.T[t].processing_time = 1]
    IN  IF Notifies(m2, t) /\ Accepts(m2.W, TargetOf(m2, t))
        THEN { Post(m2, r, TargetOf(m2, t), "notify_completed") }
        ELSE TaskReturn(m2, r)

\* the update of the task after the handler returned, up to the notification
TaskComplete(m, r, ok) ==
    LET t  == m.R[r].task
        m1 == [m EXCEPT !.T[t].status = COMPLETED, !.T[t].result = m.R[r].call,
                        !.T[t].completed_at = 1, !.T[t].processing_time = 1]
        m2 == IF CACHE_ENABLED
              THEN [m1 EXCEPT !.C = CacheSet(@,
                        cache_key(m1.T[t].task_type, m1.T[t].input_hash),
                        Snap(m1.T, t), ok)]
              ELSE m1
    IN  IF CACHE_ENABLED /\ set(ok) = "raise"
        THEN TaskFail(m1, r, "CacheError")
        ELSE IF Notifies(m2, t) /\ Accepts(m2.W, TargetOf(m2, t))
        THEN { Post(m2, r, TargetOf(m2, t), "notify_completed") }
        ELSE TaskReturn(m2, r)

\* ------------------------------------------------------------------- steps
\* RAGService.get_relevant_context, had it let the error of the search out
get_relevant_context_raises(outcome) ==
    CASE outcome = "matches" -> "context"
      [] outcome = "empty"   -> "None"
      [] outcome = "error"   -> "raise"

\* RAGService.get_relevant_context: the joined texts of the matches, None
\* when there is no match, None when anything raised (lines 129-131)
get_relevant_context(outcome) ==
    CASE outcome = "matches" -> "context"
      [] outcome = "empty"   -> "None"
      [] outcome = "error"   -> "None"

\* rag_service.get_relevant_context ends: the handler is dispatched with the
\* context it returned; an exception would reach the except clause of
\* _process_task
RagReturn(r) ==
    /\ runs[r].pc = "rag"
    /\ \E outcome \in RagOutcomes :
          LET m == [Now EXCEPT !.R[r].rag = outcome]
          IN  \E m2 \in IF get_relevant_context(outcome) = "raise"
                         THEN TaskFail(m, r, "ContextError")
                         ELSE Dispatch(m, r) :
                 Becomes(m2)

\* the loop of UltraSafeClient._make_request from attempt number `attempt`
\* on (0-based): a successful attempt returns the answer, a failed one
\* re-raises when it is the last, and a loop that ends returns None
RECURSIVE attempts_from(_, _, _)
attempts_from(fails, attempt, last_raises) ==
    IF attempt >= ULTRASAFE_MAX_RETRIES
    THEN [fails |-> fails, attempts |-> attempt, out |-> "None"]
    ELSE IF attempt >= fails
    THEN [fails |-> fails, attempts |-> attempt + 1, out |-> "result"]
    ELSE IF attempt = ULTRASAFE_MAX_RETRIES - 1 /\ last_raises
    THEN [fails |-> fails, attempts |-> attempt + 1, out |-> "raise"]
    ELSE attempts_from(fails, attempt + 1, last_raises)

\* _make_request, had its except clauses only logged the error
_make_request_logs_only(fails) == attempts_from(fails, 0, FALSE)

\* UltraSafeClient._make_request
_make_request(fails) == attempts_from(fails, 0, TRUE)

\* the gateway call returns (the answer of a successful attempt, or None)
InferOk(r) ==
    /\ runs[r].pc = "infer"
    /\ \E fails \in GatewayFailures :
          LET g == _make_request(fails)
          IN  /\ g.out # "raise"
              /\ \E ok \in BOOLEAN :
                    \E m \in TaskComplete([Now EXCEPT !.G = g], r, ok) :
                        Becomes(m)

\* the gateway call raises: its last attempt failed
InferFail(r) ==
    /\ runs[r].pc = "infer"
    /\ \E fails \in GatewayFailures :
          LET g == _make_request(fails)
          IN  /\ g.out = "raise"
              /\ \E m \in TaskFail([Now EXCEPT !.G = g], r, "InferenceError") :
                    Becomes(m)

\* the POST of the task.completed notification ends and send_notification
\* returns, or its loop goes round
NotifyCompletedReturn(r) ==
    /\ runs[r].pc = "notify_completed"
    /\ \E d \in Deliveries(Now, r) :
          /\ d.out # "raise"
          /\ \E m \in IF d.out = "retry"
                       THEN { Retried(Now, r, d.row) }
                       ELSE TaskReturn(Landed(Now, r, d.row), r) :
                Becomes(m)

\* send_notification (task.completed) raises: the except clause of
\* _process_task runs, and its commit flushes what the session holds
NotifyCompletedRaise(r) ==
    /\ runs[r].pc = "notify_completed"
    /\ \E d \in Deliveries(Now, r) :
          /\ d.out = "raise"
          /\ \E m \in TaskFail(Landed(Now, r, d.pending), r, "notify") :
                Becomes(m)

\* the POST of the task.failed notification ends and send_notification
\* returns, or its loop goes round
NotifyFailedReturn(r) ==
    /\ runs[r].pc = "notify_failed"
    /\ \E d \in Deliveries(Now, r) :
          /\ d.out # "raise"
          /\ \E m \in IF d.out = "retry"
                       THEN { Retried(Now, r, d.row) }
                       ELSE TaskReturn(Landed(Now, r, d.row), r) :
                Becomes(m)

\* send_notification (task.failed) raises out of _process_task: the
\* coordinator's except clause commits, the worker closes its session
NotifyFailedRaise(r) ==
    /\ runs[r].pc = "notify_failed"
    /\ \E d \in Deliveries(Now, r) :
          /\ d.out = "raise"
          /\ \E m \in TaskRaise(Landed(Now, r,
                           IF runs[r].op \in Coordinators
                           THEN d.pending ELSE d.row), r) :
                Becomes(m)

\* send_notification (batch_job.completed) returns, or its loop goes round
BatchNotifyCompletedReturn(r) ==
    /\ runs[r].pc = "bnotify_completed"
    /\ \E d \in Deliveries(Now, r) :
          /\ d.out # "raise"
          /\ Becomes(IF d.out = "retry"
                     THEN Retried(Now, r, d.row)
                     ELSE [Landed(Now, r, d.row) EXCEPT !.R[r] = EndRun(@, "done")])

\* send_notification (batch_job.completed) raises: the except clause of
\* _process_batch_job runs
BatchNotifyCompletedRaise(r) ==
    /\ runs[r].pc = "bnotify_completed"
    /\ \E d \in Deliveries(Now, r) :
          /\ d.out = "raise"
          /\ \E m \in CoordExcept(Landed(Now, r, d.pending), r, "notify") :
                Becomes(m)

\* send_notification (batch_job.failed) returns, goes round its loop, or
\* raises out of _process_batch_job
BatchNotifyFailedReturn(r) ==
    /\ runs[r].pc = "bnotify_failed"
    /\ \E d \in Deliveries(Now, r) :
          Becomes(IF d.out = "retry"
                  THEN Retried(Now, r, d.row)
                  ELSE [Landed(Now, r, d.row) EXCEPT
                          !.R[r] = EndRun(@, IF d.out = "raise"
                                             THEN "raised" ELSE "done")])

\* the POST of a direct call ends and send_notification returns, or its
\* loop goes round
PostReturn(r) ==
    /\ runs[r].pc = "post"
    /\ \E d \in Deliveries(Now, r) :
          /\ d.out # "raise"
          /\ Becomes(IF d.out = "retry"
                     THEN Retried(Now, r, d.row)
                     ELSE [Landed(Now, r, d.row) EXCEPT
                             !.R[r] = [EndRun(@, "done") EXCEPT !.out = d.out]])

\* a direct call raises; its caller commits the session or drops it
PostRaise(r) ==
    /\ runs[r].pc = "post"
    /\ \E d \in Deliveries(Now, r) :
          /\ d.out = "raise"
          /\ \E row \in {d.row, d.pending} :
                Becomes([Landed(Now, r, row) EXCEPT
                           !.R[r] = [EndRun(@, "raised") EXCEPT !.out = "raise"]])

\* ------------------------------------------------------------- entry points
\* submits that have returned and whose cache entry has not expired
FreshSubmits ==
    { i \in DOMAIN runs :
        runs[i].op = "submit" /\ runs[i].pc = "done" /\ ~runs[i].expired }

\* TaskService.create_task
create_task(q) ==
    /\ Len(runs) < MaxRuns
    /\ LET key == cache_key(q.kind, _generate_input_hash(q.text))
           r   == Len(runs) + 1
           t   == Len(tasks) + 1
           run == [NewRun("submit", "start", 0, 0) EXCEPT
                     !.req = q, !.fresh = FreshSubmits]
       IN  \/ \* cache hit: the cached value is returned
              /\ CACHE_ENABLED
              /\ key \in DOMAIN cache
              /\ Becomes([Now EXCEPT !.R = Append(@,
                     [run EXCEPT !.pc = "done", !.hit = TRUE, !.ret = cache[key]])])
           \/ \* miss (no entry, or cache_service.get swallowed an error)
              /\ Len(tasks) < MaxTasks
              /\ \E m \in StartTask([Now EXCEPT
                              !.T = Append(@, NewTask(q, 0)),
                              !.R = Append(@, [run EXCEPT !.task = t])], r) :
                    Becomes(m)

Submit == \E q \in Requests : create_task(q)

\* create_task called with any task_type and parameters
ServiceSubmit == \E q \in ServiceRequests : create_task(q)

\* TaskService.create_batch_job
create_batch_job(qs, wh) ==
    /\ Len(runs) < MaxRuns
    /\ Len(jobs) < MaxJobs
    /\ Len(tasks) + Len(qs) <= MaxTasks
    /\ LET j == Len(jobs) + 1
           r == Len(runs) + 1
       IN  \E m \in BatchStart([Now EXCEPT
                      !.J = Append(@, NewJob(Len(qs), wh)),
                      !.T = @ \o [i \in 1..Len(qs) |-> NewTask(qs[i], j)],
                      !.R = Append(@, NewRun("batch", "bstart", 0, j))], r) :
              Becomes(m)

SubmitBatch == \E qs \in BatchInputs, wh \in WebhookTargets : create_batch_job(qs, wh)

\* worker.process_nlp_task: a worker message (re)processes a task.  The
\* worker calls task_service._process_task(db, task_id); the call is taken
\* to run the coroutine (as written it is not awaited).
process_nlp_task(t) ==
    /\ Len(runs) < MaxRuns
    /\ \E m \in StartTask([Now EXCEPT
                    !.R = Append(@, NewRun("wtask", "start", t, 0))],
                  Len(runs) + 1) :
          Becomes(m)

WorkerTask == \E t \in DOMAIN tasks : process_nlp_task(t)

\* worker.process_batch_job: a worker message (re)runs the coordinator (the
\* call of _process_batch_job is taken to run the coroutine, as above)
process_batch_job(j) ==
    /\ Len(runs) < MaxRuns
    /\ \E m \in BatchStart([Now EXCEPT
                    !.R = Append(@, NewRun("wbatch", "bstart", 0, j))],
                  Len(runs) + 1) :
          Becomes(m)

WorkerBatch == \E j \in DOMAIN jobs : process_batch_job(j)

\* cancel_batch_job, had its query taken every child that is not yet terminal
cancel_batch_job_unfinished(j) ==
    LET open == { t \in ChildrenOf(tasks, j) : tasks[t].status \notin Terminal }
    IN  /\ jobs' = [jobs EXCEPT ![j].status = CANCELLED]
        /\ tasks' = [t \in DOMAIN tasks |->
                       IF t \in open
                       THEN [tasks[t] EXCEPT !.status = CANCELLED]
                       ELSE tasks[t]]
        /\ revoked' = revoked \cup open

\* TaskService.cancel_batch_job: the job is set to cancelled whatever its
\* status, then the children the query finds pending are set to cancelled
cancel_batch_job(j) ==
    LET pending == { t \in ChildrenOf(tasks, j) : tasks[t].status = PENDING }
    IN  /\ jobs' = [jobs EXCEPT ![j].status = CANCELLED]
        /\ tasks' = [t \in DOMAIN tasks |->
                       IF t \in pending
                       THEN [tasks[t] EXCEPT !.status = CANCELLED]
                       ELSE tasks[t]]
        /\ revoked' = revoked \cup pending

\* the guard of the endpoint, had it looked for completed jobs only
RejectsCompletedOnly(j) == jobs[j].status \in {"completed"}

\* the guard of the endpoint (batch.py line 99)
Rejects(j) == jobs[j].status \in {"completed", "failed", "cancelled"}

\* DELETE /batch/{job_id}: answers 400 and touches nothing, or calls
\* TaskService.cancel_batch_job and answers with the job.  The handler
\* awaits nothing between its check and the service call.
delete_batch(j) ==
    /\ reply.n < MaxCancels
    /\ \/ /\ Rejects(j)
          /\ reply' = [n |-> reply.n + 1, job |-> j, status_code |-> 400]
          /\ UNCHANGED <<tasks, jobs, revoked>>
       \/ /\ ~Rejects(j)
          /\ cancel_batch_job(j)
          /\ reply' = [n |-> reply.n + 1, job |-> j, status_code |-> 200]
    /\ UNCHANGED <<cache, runs, calls, webhooks, sent, gateway, retrieved>>

CancelBatch == \E j \in DOMAIN jobs : delete_batch(j)

\* WebhookService.create_webhook
create_webhook ==
    /\ Len(webhooks) < MaxWebhooks
    /\ webhooks' = Append(webhooks, NewWebhook)
    /\ UNCHANGED <<tasks, jobs, cache, runs, calls, reply, revoked, sent, gateway, retrieved>>

\* WebhookService.send_notification, called directly for webhook id w
send_notification(w) ==
    /\ Cardinality({ r \in DOMAIN runs : runs[r].op = "notify" }) < MaxNotifies
    /\ LET r   == Len(runs) + 1
           run == [NewRun("notify", "post", 0, 0) EXCEPT
                     !.target = w, !.found = Lookup(webhooks, w)]
       IN  Becomes(IF Accepts(webhooks, w)
                   THEN Post([Now EXCEPT !.R = Append(@, run)], r, w, "post")
                   ELSE [Now EXCEPT !.R = Append(@,
                           [run EXCEPT !.pc = "done", !.out = "False"])])

Notify == \E w \in 1..MaxWebhooks : send_notification(w)

\* json.dumps(payload, sort_keys=..., separators=...): the text, as the
\* order of its items and the separators between them
dumps(payload, sort_keys, separators) ==
    [ items      |-> IF sort_keys
                     THEN SeqOfSet({ payload[i] : i \in DOMAIN payload })
                     ELSE payload,
      separators |-> separators ]

\* hmac.new(key, message, hashlib.sha256).hexdigest(): equal digests for
\* equal keys and messages only
hmac_sha256(key, message) == <<"hmac-sha256", key, message>>

\* WebhookService._generate_signature
_generate_signature(payload, secret) ==
    hmac_sha256(secret, dumps(payload, TRUE, "default"))

\* the request body httpx builds for json=payload
encode_json(payload, encoder) == dumps(payload, FALSE, encoder)

\* lines 34-48 of send_notification: the signature header is computed, then
\* the payload is handed to client.post(..., json=payload, headers=headers)
post(payload, secret, encoder) ==
    /\ sent' = [ secret    |-> secret,
                 body      |-> encode_json(payload, encoder),
                 signature |-> _generate_signature(payload, secret) ]
    /\ UNCHANGED <<tasks, jobs, cache, runs, calls, webhooks, reply, revoked,
                   gateway, retrieved>>

SignedPost ==
    \E payload \in Payloads, secret \in Secrets, encoder \in JsonEncoders :
        post(payload, secret, encoder)

\* ------------------------------------------------------------ RAGService
\* search_similar: the matches whose score reaches the threshold, in the
\* order of the answer
search_similar(results) ==
    SelectSeq(results, LAMBDA match : match.score >= RAG_SCORE_THRESHOLD)

\* the loop of get_relevant_context, had it skipped a text that does not fit
\* and gone on to the next
RECURSIVE combine_skips(_, _, _, _)
combine_skips(matches, context, current_length, max_length) ==
    IF matches = <<>> THEN context
    ELSE LET text == Head(matches).text
         IN  IF current_length + Len(text) > max_length
             THEN combine_skips(Tail(matches), context, current_length, max_length)
             ELSE combine_skips(Tail(matches), Append(context, text),
                                current_length + Len(text), max_length)

\* the loop of get_relevant_context (lines 117-125): texts are appended
\* whole until one would bring the length over max_length
RECURSIVE combine(_, _, _, _)
combine(matches, context, current_length, max_length) ==
    IF matches = <<>> THEN context
    ELSE LET text == Head(matches).text
         IN  IF current_length + Len(text) > max_length
             THEN context
             ELSE combine(Tail(matches), Append(context, text),
                          current_length + Len(text), max_length)

\* separator.join(context); the separator is one character
RECURSIVE join(_, _)
join(separator, context) ==
    IF context = <<>> THEN <<>>
    ELSE IF Len(context) = 1 THEN context[1]
    ELSE context[1] \o <<separator>> \o join(separator, Tail(context))

\* "\n"
Newline == 0

\* get_relevant_context for an answer of the index, or for a search that
\* raised: None, or the joined texts
relevant_context(results, max_length, raised) ==
    LET matches == search_similar(results)
    IN  IF raised \/ matches = <<>>
        THEN [none |-> TRUE, text |-> <<>>]
        ELSE [none |-> FALSE,
              text |-> join(Newline, combine(matches, <<>>, 0, max_length))]

\* the call of RAGService.get_relevant_context: the index answers
\* retrieved.results (or the search raises) and the context is returned
GetContext ==
    /\ ~retrieved.called
    /\ retrieved' = [retrieved EXCEPT
                       !.called = TRUE,
                       !.context = relevant_context(retrieved.results,
                                       retrieved.max_length, retrieved.raised)]
    /\ UNCHANGED <<tasks, jobs, cache, runs, calls, webhooks, reply, revoked,
                   sent, gateway>>

\* the TTL of a cache entry runs out (redis setex)
Expire(key) ==
    /\ key \in DOMAIN cache
    /\ cache' = [k \in DOMAIN cache \ {key} |-> cache[k]]
    /\ runs' = [i \in DOMAIN runs |->
                  IF /\ runs[i].op = "submit"
                     /\ runs[i].pc = "done"
                     /\ cache_key(runs[i].req.kind,
                                  _generate_input_hash(runs[i].req.text)) = key
                  THEN [runs[i] EXCEPT !.expired = TRUE]
                  ELSE runs[i]]
    /\ UNCHANGED <<tasks, jobs, calls, webhooks, reply, revoked, sent, gateway, retrieved>>

CacheExpire == \E key \in DOMAIN cache : Expire(key)

Next ==
    \/ create_webhook
    \/ Submit
    \/ SubmitBatch
    \/ WorkerTask
    \/ WorkerBatch
    \/ CancelBatch
    \/ CacheExpire
    \/ \E r \in DOMAIN runs : RagReturn(r)
    \/ \E r \in DOMAIN runs : InferOk(r)
    \/ \E r \in DOMAIN runs : InferFail(r)
    \/ \E r \in DOMAIN runs : NotifyCompletedReturn(r)
    \/ \E r \in DOMAIN runs : NotifyCompletedRaise(r)
    \/ \E r \in DOMAIN runs : NotifyFailedReturn(r)
    \/ \E r \in DOMAIN runs : NotifyFailedRaise(r)
    \/ \E r \in DOMAIN runs : BatchNotifyCompletedReturn(r)
    \/ \E r \in DOMAIN runs : BatchNotifyCompletedRaise(r)
    \/ \E r \in DOMAIN runs : BatchNotifyFailedReturn(r)

Spec == Init /\ [][Next]_vars

\* the request handlers alone: no worker message is ever delivered
ApiNext ==
    \/ create_webhook
    \/ Submit
    \/ SubmitBatch
    \/ CancelBatch
    \/ CacheExpire
    \/ \E r \in DOMAIN runs : RagReturn(r)
    \/ \E r \in DOMAIN runs : InferOk(r)
    \/ \E r \in DOMAIN runs : InferFail(r)
    \/ \E r \in DOMAIN runs : NotifyCompletedReturn(r)
    \/ \E r \in DOMAIN runs : NotifyCompletedRaise(r)
    \/ \E r \in DOMAIN runs : NotifyFailedReturn(r)
    \/ \E r \in DOMAIN runs : NotifyFailedRaise(r)
    \/ \E r \in DOMAIN runs : BatchNotifyCompletedReturn(r)
    \/ \E r \in DOMAIN runs : BatchNotifyCompletedRaise(r)
    \/ \E r \in DOMAIN runs : BatchNotifyFailedReturn(r)

ApiSpec == Init /\ [][ApiNext]_vars

\* single submissions and worker messages alone (no batch is ever created)
SubmitNext ==
    \/ Submit
    \/ WorkerTask
    \/ CacheExpire
    \/ \E r \in DOMAIN runs : RagReturn(r)
    \/ \E r \in DOMAIN runs : InferOk(r)
    \/ \E r \in DOMAIN runs : InferFail(r)

SubmitSpec == Init /\ [][SubmitNext]_vars

\* the dispatcher alone: webhooks are registered and notified directly
WebhookNext ==
    \/ create_webhook
    \/ Notify
    \/ \E r \in DOMAIN runs : PostReturn(r)
    \/ \E r \in DOMAIN runs : PostRaise(r)

WebhookSpec == Init /\ [][WebhookNext]_vars

\* batches, their cancellation and worker messages (no webhook is registered)
BatchNext ==
    \/ SubmitBatch
    \/ WorkerTask
    \/ WorkerBatch
    \/ CancelBatch
    \/ \E r \in DOMAIN runs : InferOk(r)
    \/ \E r \in DOMAIN runs : InferFail(r)

BatchSpec == Init /\ [][BatchNext]_vars

\* batches and their cancellation while the coordinators run (no worker
\* message is redelivered, no webhook is registered)
CancelNext ==
    \/ SubmitBatch
    \/ CancelBatch
    \/ \E r \in DOMAIN runs : InferOk(r)
    \/ \E r \in DOMAIN runs : InferFail(r)

CancelSpec == Init /\ [][CancelNext]_vars

\* TaskService.create_task alone, called with any task_type and parameters
ServiceNext ==
    \/ ServiceSubmit
    \/ CacheExpire
    \/ \E r \in DOMAIN runs : RagReturn(r)
    \/ \E r \in DOMAIN runs : InferOk(r)
    \/ \E r \in DOMAIN runs : InferFail(r)

ServiceSpec == Init /\ [][ServiceNext]_vars

\* the signature of a delivery alone: every payload, secret and encoder
SignNext == SignedPost

SignSpec == Init /\ [][SignNext]_vars

\* the Context Provider alone: a call of get_relevant_context with any
\* max_length, for any answer of the index
RagInit ==
    /\ tasks = <<>> /\ jobs = <<>> /\ cache = EmptyMap /\ runs = <<>>
    /\ calls = 0 /\ webhooks = <<>> /\ revoked = {}
    /\ reply = [n |-> 0, job |-> 0, status_code |-> 0]
    /\ sent = [secret |-> 0, body |-> 0, signature |-> 0]
    /\ gateway = [fails |-> 0, attempts |-> 0, out |-> ""]
    /\ retrieved \in
          { [results |-> results, max_length |-> max_length, raised |-> raised,
             called |-> FALSE, context |-> [none |-> TRUE, text |-> <<>>]] :
              results \in ProviderResults, max_length \in 0..MaxLength,
              raised \in BOOLEAN }

RagNext == GetContext

RagSpec == RagInit /\ [][RagNext]_vars

\* ================================================================ properties
SubmitsDone == { r \in DOMAIN runs : runs[r].op = "submit" /\ runs[r].pc = "done" }

\* the coordinator runs that end in this step
EndingCoordinators ==
    { r \in DOMAIN runs' :
        /\ runs'[r].op \in Coordinators
        /\ runs'[r].pc \in Finished
        /\ (r \in DOMAIN runs => runs[r].pc \notin Finished) }

GatewayCalls(r) == IF runs[r].call # 0 THEN 1 ELSE 0

C4_CacheKeyedByKindTextParameters ==
    /\ \A r \in SubmitsDone :
          runs[r].hit =>
              LET t == runs[r].ret.id
              IN  /\ tasks[t].task_type = runs[r].req.kind
                  /\ tasks[t].input_text = runs[r].req.text
                  /\ tasks[t].parameters = runs[r].req.parameters
    /\ \A t, u \in DOMAIN tasks :
          (tasks[t].task_type # tasks[u].task_type
              \/ tasks[t].parameters # tasks[u].parameters)
            => /\ tasks[t].input_hash # tasks[u].input_hash
               /\ cache_key(tasks[t].task_type, tasks[t].input_hash)
                    # cache_key(tasks[u].task_type, tasks[u].input_hash)

\* C5: whenever submit returns, what it returns is a task in a terminal state
\* (completed or failed) or a cache hit; never a pending or processing task.
C5_SubmitReturnsTerminalOrHit ==
    \A r \in SubmitsDone :
        runs[r].hit \/ runs[r].ret.status \in {COMPLETED, FAILED}

\* a state where one submit returned a completed task and another a failed one,
\* both after a full processing cycle
C5_Witness ==
    \E r, q \in SubmitsDone :
        /\ ~runs[r].hit /\ runs[r].ret.status = COMPLETED
        /\ ~runs[q].hit /\ runs[q].ret.status = FAILED

C8_EveryChildProcessed ==
    [][\A r \in EndingCoordinators :
          \A c \in ChildrenOf(tasks', runs'[r].job) :
              /\ tasks'[c].status \in Terminal
              /\ c \in DOMAIN jobs'[runs'[r].job].results]_vars

CancelRequestOf(j) == reply'.n # reply.n /\ reply'.job = j

\* C11: cancel_batch succeeds only while the job is pending or processing; on
\* a completed, failed or cancelled job it is rejected with an error and
\* changes neither the job record nor any child task.
C11_CancelOnlyWhileActive ==
    [][\A j \in DOMAIN jobs : CancelRequestOf(j) =>
          /\ reply'.status_code = 200 => jobs[j].status \in {PENDING, PROCESSING}
          /\ jobs[j].status \in Terminal =>
                /\ reply'.status_code = 400
                /\ jobs' = jobs
                /\ tasks' = tasks]_vars

\* a cancel request was answered 400 for a job that is failed or completed
\* after one that was answered with the job
C11_Witness ==
    /\ reply.n = 2
    /\ reply.status_code = 400
    /\ jobs[reply.job].status \in {COMPLETED, FAILED}

\* C12: a successful cancel_batch sets the job to cancelled, every child that
\* is pending at that moment to cancelled, and leaves every child that is
\* processing or terminal as it is.
C12_CancelFrame ==
    [][\A j \in DOMAIN jobs :
          (CancelRequestOf(j) /\ reply'.status_code = 200) =>
              /\ jobs'[j].status = CANCELLED
              /\ \A c \in ChildrenOf(tasks, j) :
                    IF tasks[c].status = PENDING
                    THEN tasks'[c].status = CANCELLED
                    ELSE /\ tasks'[c].status = tasks[c].status
                         /\ tasks'[c].result = tasks[c].result
                         /\ tasks'[c].error = tasks[c].error]_vars

\* a successful cancel left one child cancelled and another one processing
C12_Witness ==
    /\ reply.status_code = 200
    /\ jobs[reply.job].status = CANCELLED
    /\ \E c, d \in ChildrenOf(tasks, reply.job) :
          /\ c \in revoked /\ tasks[c].status = CANCELLED
          /\ tasks[d].status = PROCESSING

\* run r begins an awaited call (context fetch or inference) in this step
BeginsCall(r) ==
    /\ runs'[r].pc \in {"rag", "infer"}
    /\ \/ r \notin DOMAIN runs
       \/ runs[r].pc # runs'[r].pc
       \/ runs[r].task # runs'[r].task

NotifyRuns == { r \in DOMAIN runs : runs[r].op = "notify" }

\* run r makes a network call in this step
BeginsPost(r) ==
    IF r \in DOMAIN runs THEN runs'[r].posts > runs[r].posts
    ELSE runs'[r].posts > 0

\* the direct call r ends in this step
EndsNotify(r) ==
    /\ runs'[r].op = "notify"
    /\ runs'[r].pc \in Finished
    /\ (r \in DOMAIN runs => runs[r].pc = "post")

\* C15: failure_count >= MAX_FAILURES implies is_active = false, after any
\* sequence of notify calls and any mix of attempt outcomes.
C15_MaxFailuresDeactivates ==
    \A w \in DOMAIN webhooks :
        webhooks[w].failure_count >= MAX_WEBHOOK_FAILURES => ~webhooks[w].is_active

C17_RejectedWithoutCall ==
    [][\A r \in DOMAIN runs' \ DOMAIN runs :
          (runs'[r].op = "notify" /\ runs'[r].found # "active") =>
              /\ runs'[r].pc = "done"
              /\ runs'[r].out = "False"
              /\ runs'[r].posts = 0
              /\ webhooks' = webhooks]_vars

\* a call met an inactive webhook and returned False without a POST
C17_Witness ==
    \E q \in NotifyRuns :
        /\ runs[q].found = "inactive" /\ runs[q].out = "False"
        /\ runs[q].pc = "done" /\ runs[q].posts = 0

\* C18: when an attempt returns a success status, notify sets failure_count
\* to 0, records last_triggered and last_status, returns success and makes
\* no further attempt.
C18_SuccessResets ==
    [][\A r \in DOMAIN runs' :
          (EndsNotify(r) /\ runs'[r].out = "True") =>
              LET w == runs'[r].target
              IN  /\ webhooks'[w].failure_count = 0
                  /\ webhooks'[w].last_status = 200
                  /\ webhooks'[w].last_triggered = r
                  /\ runs'[r].pc = "done"
                  /\ runs'[r].posts = runs[r].posts]_vars

\* C19: every notify call makes at most max_retries attempts and returns
\* either success or failure.
C19_NotifyReturns ==
    \A r \in NotifyRuns :
        /\ runs[r].posts <= max_retries
        /\ runs[r].pc \in Finished =>
              runs[r].pc = "done" /\ runs[r].out \in {"True", "False"}

\* C20: a failed attempt that brings failure_count to the maximum makes
\* notify set is_active = false and return failure at once, whatever the
\* kind of failure.
C20_DeactivatesAtMax ==
    [][\A r \in DOMAIN runs :
          LET w == runs[r].target
          IN  ( /\ runs[r].op = "notify" /\ runs[r].pc = "post"
                /\ runs'[r] # runs[r]
                /\ webhooks[w].failure_count < MAX_WEBHOOK_FAILURES
                /\ webhooks'[w].failure_count >= MAX_WEBHOOK_FAILURES )
              => /\ ~webhooks'[w].is_active
                 /\ runs'[r].pc = "done"
                 /\ runs'[r].out = "False"
                 /\ runs'[r].posts = runs[r].posts]_vars

\* the direct call r ends in this step without a success
EndsNotifyFailed(r) ==
    /\ EndsNotify(r)
    /\ runs'[r].out # "True"

\* C21: a notify call all of whose attempts fail while failure_count stays
\* below the maximum returns failure after max_retries attempts and leaves
\* the webhook active.
C21_ExhaustedReturnsFailure ==
    [][\A r \in DOMAIN runs :
          LET w == runs[r].target
          IN  (/\ EndsNotifyFailed(r)
               /\ webhooks'[w].failure_count < MAX_WEBHOOK_FAILURES)
              => /\ runs'[r].out = "False"
                 /\ runs'[r].posts = max_retries
                 /\ webhooks'[w].is_active]_vars

\* C22: the failure-count increment is atomic per webhook: a failed attempt
\* that writes failure_count writes one more than the row holds at that
\* moment, so no increment of a concurrent delivery is lost.
C22_IncrementAtomic ==
    [][\A r \in DOMAIN runs :
          LET w == runs[r].target
              h == Held(webhooks[w], runs[r].seen)
          IN  (/\ EndsNotifyFailed(r)
               /\ webhooks'[w].failure_count = h.failure_count + 1)
              => webhooks'[w].failure_count = webhooks[w].failure_count + 1]_vars

\* C23: no operation changes a webhook's is_active from false to true; a
\* successful delivery by a call still in flight resets failure_count and
\* leaves the webhook inactive.
C23_NeverReactivated ==
    [][\A w \in DOMAIN webhooks :
          ~webhooks[w].is_active => ~webhooks'[w].is_active]_vars

\* a call that was in flight when the webhook was deactivated has succeeded:
\* the row is inactive with failure_count reset and that call's stamp
C23_Witness ==
    \E q \in NotifyRuns :
        LET row == webhooks[runs[q].target]
        IN  /\ runs[q].out = "True"
            /\ ~row.is_active
            /\ row.failure_count = 0
            /\ row.last_triggered = q

\* C24: recomputing the HMAC-SHA-256 over the delivered body with the stored
\* secret reproduces the signature sent in the header.
C24_SignatureRoundTrip ==
    sent.secret # 0 => hmac_sha256(sent.secret, sent.body) = sent.signature

\* C25: submit, submit_batch and notify never raise to their caller for an
\* expected failure (inference, context provider, delivery attempt, unknown
\* or inactive webhook): no such call ends with an exception.
C25_NeverRaises ==
    \A r \in DOMAIN runs :
        runs[r].op \in {"submit", "batch", "notify"} => runs[r].pc # "raised"

\* the request names a known kind and carries the parameter its kind requires
WellFormed(q) ==
    /\ q.kind \in task_handlers
    /\ q.kind = "classification" => q.parameters.categories # 0

\* C26: a submit with an unknown kind or with a required kind-specific
\* parameter missing is rejected before any persistence: no Task record is
\* created, the record store and the cache are unchanged.
C26_InvalidRejectedBeforePersistence ==
    [][\A r \in DOMAIN runs' \ DOMAIN runs :
          (runs'[r].op = "submit" /\ ~WellFormed(runs'[r].req)) =>
              /\ tasks' = tasks
              /\ cache' = cache]_vars

Emits(r, pc) ==
    /\ runs'[r].pc = pc
    /\ runs'[r].task # 0
    /\ runs[r].pc # pc \/ runs[r].task # runs'[r].task

C32_TerminalFieldsSet ==
    \A t \in DOMAIN tasks :
        /\ tasks[t].status = FAILED =>
              tasks[t].error # "None" /\ tasks[t].completed_at # 0
        /\ tasks[t].status = COMPLETED =>
              /\ tasks[t].result # 0
              /\ tasks[t].completed_at # 0
              /\ tasks[t].processing_time # 0

AttemptFailsWithRetriesLeft(r) ==
    /\ runs[r].op = "notify" /\ runs[r].pc = "post"
    /\ runs'[r] # runs[r]
    /\ runs'[r].out # "True"
    /\ runs[r].attempt < max_retries - 1
    /\ webhooks'[runs[r].target].failure_count < MAX_WEBHOOK_FAILURES

\* the direct call r has waited after a failed attempt and is suspended in
\* its retry loop
BetweenAttempts(r) ==
    runs[r].op = "notify" /\ runs[r].pc = "post" /\ runs[r].attempt >= 1

TextsOf(matches) == [i \in DOMAIN matches |-> matches[i].text]

RECURSIVE TotalLength(_)
TotalLength(texts) ==
    IF texts = <<>> THEN 0 ELSE Len(Head(texts)) + TotalLength(Tail(texts))

\* C35: get_context returns the concatenation of a prefix of the matches
\* whose score is at least the threshold, taken in the provider's
\* descending score order: each fragment is included whole or not at all,
\* inclusion stops at the first fragment that would make the cumulative
\* length exceed max_length, and the cumulative length of the included
\* fragments never exceeds max_length.
C35_ContextIsFittingPrefix ==
    (retrieved.called /\ ~retrieved.context.none) =>
        LET eligible == TextsOf(SelectSeq(retrieved.results,
                            LAMBDA match : match.score >= RAG_SCORE_THRESHOLD))
        IN  \E k \in 0..Len(eligible) :
                /\ retrieved.context.text = join(Newline, SubSeq(eligible, 1, k))
                /\ TotalLength(SubSeq(eligible, 1, k)) <= retrieved.max_length
                /\ k < Len(eligible) =>
                      TotalLength(SubSeq(eligible, 1, k + 1)) > retrieved.max_length

\* a call returned the first text alone: the second did not fit, and the
\* third, eligible too, would have
C35_Witness ==
    /\ retrieved.called /\ ~retrieved.context.none
    /\ Len(retrieved.results) = 3
    /\ retrieved.results[3].score >= RAG_SCORE_THRESHOLD
    /\ retrieved.context.text = retrieved.results[1].text
    /\ Len(retrieved.results[1].text) > 0
    /\ Len(retrieved.results[1].text) + Len(retrieved.results[2].text)
           > retrieved.max_length
    /\ Len(retrieved.results[1].text) + Len(retrieved.results[3].text)
           <= retrieved.max_length

\* the cache key of the request of submit r
KeyOf(r) == cache_key(runs[r].req.kind, _generate_input_hash(runs[r].req.text))

\* two submits with the same fingerprint that both missed, the second begun
\* before the first returned, have both returned and no entry has expired
RacedSubmits ==
    { p \in SubmitsDone \X SubmitsDone :
        /\ p[1] < p[2]
        /\ KeyOf(p[1]) = KeyOf(p[2])
        /\ ~runs[p[1]].hit /\ ~runs[p[2]].hit
        /\ p[1] \notin runs[p[2]].fresh
        /\ ~runs[p[1]].expired /\ ~runs[p[2]].expired }

Written == { k \in DOMAIN cache' : k \notin DOMAIN cache \/ cache'[k] # cache[k] }

====
